---- MODULE Spec2Model ----
(***************************************************************************)
(* A model of demos/FileScannerTool.py: FileScannerTool.use and the four   *)
(* classifiers it drives (_scan_large_files, _scan_temp_files,             *)
(* _scan_old_files, _scan_duplicates).                                     *)
(*                                                                         *)
(* Strings whose characters the code inspects (file names, the extensions  *)
(* parameter) are sequences of one-character strings.  Sizes are bytes,    *)
(* times are seconds, a size in megabytes rounded to two decimals is the   *)
(* integer number of hundredths.                                           *)
(***************************************************************************)
EXTENDS Integers, Sequences, FiniteSets, TLC

VARIABLES
    tree,         \* what path.rglob("*") yields under the root, in walk order
    clock,        \* time.time()
    ticks,        \* how often the clock has advanced
    pc,           \* "idle" | "walk" | "done": position of the call to use()
    request,      \* the arguments of the call
    scan_type,    \* use(): scan_type
    min_size_mb,  \* use(): min_size_mb
    ext_list,     \* use(): ext_list
    cutoff_time,  \* _scan_old_files(): cutoff_time
    t0,           \* the clock value when the classifier was entered
    idx,          \* position of the rglob iterator
    results,      \* the classifier's results list
    total_size,   \* the classifier's total_size
    size_groups,  \* _scan_duplicates(): size_groups, in insertion order
    output        \* what use() returned (or the exception it raised)

vars == <<tree, clock, ticks, pc, request, scan_type, min_size_mb, ext_list,
          cutoff_time, t0, idx, results, total_size, size_groups, output>>

----------------------------------------------------------------------------
(* Bounds of the model *)

MaxFiles == 3     \* entries of an enumerated directory tree
LongLen == 22     \* entries of the longest repetitive directory tree
MaxTicks == 1     \* clock advances during one call

----------------------------------------------------------------------------
(* Program constants *)

MB == 1048576                 \* 1024 * 1024
DaySeconds == 86400           \* 24 * 60 * 60
DefaultDays == 180            \* use(): days=180
DefaultMinSizeMb == 10        \* use(): default of min_size_mb
Limit == 20                   \* use(): results[:20]

----------------------------------------------------------------------------
(* Strings *)

\* str.lower() on one character
LowerChar(c) ==
    CASE c = "A" -> "a" [] c = "C" -> "c" [] c = "E" -> "e" [] c = "I" -> "i"
      [] c = "M" -> "m" [] c = "O" -> "o" [] c = "P" -> "p" [] c = "S" -> "s"
      [] c = "T" -> "t" [] c = "X" -> "x" [] c = "Z" -> "z"
      [] OTHER -> c

\* str.lower()
Lower(s) == [k \in 1..Len(s) |-> LowerChar(s[k])]

\* sub in s
Contains(s, sub) ==
    \E k \in 1..(Len(s) - Len(sub) + 1) : SubSeq(s, k, k + Len(sub) - 1) = sub

\* str.strip(): leading and trailing whitespace removed
RECURSIVE LStrip(_)
LStrip(s) == IF s # <<>> /\ Head(s) = " " THEN LStrip(Tail(s)) ELSE s

RECURSIVE RStrip(_)
RStrip(s) ==
    IF s # <<>> /\ s[Len(s)] = " " THEN RStrip(SubSeq(s, 1, Len(s) - 1)) ELSE s

Strip(s) == RStrip(LStrip(s))

\* str.split(","): the pieces between commas, empty pieces included
RECURSIVE SplitFrom(_, _, _)
SplitFrom(s, k, cur) ==
    IF k > Len(s) THEN <<cur>>
    ELSE IF s[k] = "," THEN <<cur>> \o SplitFrom(s, k + 1, <<>>)
    ELSE SplitFrom(s, k + 1, Append(cur, s[k]))

Split(s) == SplitFrom(s, 1, <<>>)

\* pathlib: PurePath.suffix
Suffix(name) ==
    LET dots == {k \in 1..Len(name) : name[k] = "."}
    IN  IF dots = {} THEN <<>>
        ELSE LET j == CHOOSE k \in dots : \A m \in dots : m <= k
             IN  IF 1 < j /\ j < Len(name) THEN SubSeq(name, j, Len(name))
                 ELSE <<>>

\* the elements of a sequence
Range(s) == {s[k] : k \in 1..Len(s)}

----------------------------------------------------------------------------
(* Numbers *)

\* round(size / (1024 * 1024), 2), in hundredths: the quotient is exact in
\* binary floating point, and round() rounds the exact value half to even
Round2(size) ==
    LET q == size \div MB
        x == (size % MB) * 100
        h == x \div MB
        rem == x % MB
        up == (2 * rem > MB) \/ (2 * rem = MB /\ h % 2 = 1)
    IN  q * 100 + h + (IF up THEN 1 ELSE 0)

----------------------------------------------------------------------------
(* The file system and the clock *)

T0 == 20000 * DaySeconds      \* the clock when the call starts

\* One entry that rglob yields.  kind: "file" is a readable regular file, "dir"
\* is not a regular file, "stat_err" passes is_file() and then fails in stat()
\* with an OSError, "isfile_err" makes is_file() itself raise PermissionError.
Entry(name, size, mtime, kind) ==
    [name |-> name, size |-> size, mtime |-> mtime, kind |-> kind]

F_zip60 ==
    Entry(<<"T", "M", "P", ".", "z", "i", "p">>, 60 * MB,
          T0 - 200 * DaySeconds + 1, "file")
F_txt60 ==
    Entry(<<"b", ".", "T", "X", "T">>, 60 * MB + 1000, T0 - 10 * DaySeconds, "file")
F_zip10 ==
    Entry(<<"c", ".", "Z", "I", "P">>, 10 * MB, T0 - DefaultDays * DaySeconds, "file")
F_tilde ==
    Entry(<<"n", ".", "t", "x", "t", "~">>, 5000, T0 - 100 * DaySeconds, "file")
F_tmp ==
    Entry(<<"x", ".", "t", "m", "p">>, 131072, T0 - 200 * DaySeconds, "file")
F_empty ==
    Entry(<<"M", "y", "C", "a", "c", "h", "e">>, 0, T0 - 200 * DaySeconds, "file")
F_dir ==
    Entry(<<"s", "u", "b">>, 4096, T0 - 200 * DaySeconds, "dir")
F_staterr ==
    Entry(<<"e", ".", "l", "o", "g">>, 60 * MB, T0 - 200 * DaySeconds, "stat_err")
F_isfileerr ==
    Entry(<<"f", ".", "i", "s", "o">>, 60 * MB, T0 - 200 * DaySeconds, "isfile_err")

Pool ==
    {F_zip60, F_txt60, F_zip10, F_tilde, F_tmp, F_empty, F_dir, F_staterr,
     F_isfileerr}

\* every directory of at most MaxFiles entries
ShortTrees == UNION {[1..n -> Pool] : n \in 0..MaxFiles}

\* directories of Limit..LongLen entries that repeat a short pattern
LongPatterns ==
    {<<F_tilde>>, <<F_zip60, F_tmp>>, <<F_tmp, F_dir, F_txt60, F_empty>>}

Cycle(p, n) == [k \in 1..n |-> p[((k - 1) % Len(p)) + 1]]

LongTrees == {Cycle(p, n) : p \in LongPatterns, n \in Limit..LongLen}

Trees == ShortTrees \cup LongTrees

\* Path.is_file(): TRUE, FALSE, or "raise"
IsFile(e) ==
    CASE e.kind = "file" -> "yes"
      [] e.kind = "stat_err" -> "yes"
      [] e.kind = "dir" -> "no"
      [] e.kind = "isfile_err" -> "raise"

\* Path.stat() succeeds
StatOk(e) == e.kind = "file"

\* str(file_path.relative_to(path)): the k-th entry of the walk lies in its own
\* place of the tree, so its relative path is the pair of position and name
RelPath(k) == <<k, tree[k].name>>

\* _resolve_scan_path(): the absolute path a raw path resolves to.  "" and "."
\* are the working directory, which is the scanned tree; "nope" does not exist
\* and "a.txt" is a regular file.  The aliases of the Downloads folder and the
\* expansion of ~ and of environment variables are not modelled.
Resolve(raw) ==
    CASE raw = "" -> "/cwd"
      [] raw = "." -> "/cwd"
      [] raw = "nope" -> "/cwd/nope"
      [] raw = "a.txt" -> "/cwd/a.txt"

PathExists(abs) == abs \in {"/cwd", "/cwd/a.txt"}
PathIsDir(abs) == abs = "/cwd"

----------------------------------------------------------------------------
(* The arguments of use() *)

\* a Python value passed for min_size_mb or extensions
NumV(n) == [kind |-> "num", num |-> n, str |-> <<>>]
StrV(s) == [kind |-> "str", num |-> 0, str |-> s]
ListV(s) == [kind |-> "list", num |-> 0, str |-> s]   \* the list [s]

Ext_IsoZip == <<".", "i", "s", "o", ",", ".", "z", "i", "p">>
Ext_ZipTxt == <<" ", "Z", "I", "P", " ", ",", " ", ",", "t", "x", "t">>
Ext_Zip == <<".", "z", "i", "p">>

\* shape "dict": a JSON object or keyword arguments, with the keys given;
\* shape "csv": the comma-separated fallback with nparts parts;
\* shape "none": no arguments at all
MakeReq(shape, keys, nparts, path, m, e, st, days) ==
    [shape |-> shape, keys |-> keys, nparts |-> nparts, path |-> path,
     min_size_mb |-> m, extensions |-> e, scan_type |-> st, days |-> days]

DictReq(keys, path, m, e, st, days) == MakeReq("dict", keys, 0, path, m, e, st, days)

CsvReq(nparts, path, e, st) == MakeReq("csv", {}, nparts, path, NumV(0), StrV(e), st, 0)

\* an optional key of a dict request: <<keys it adds, value>>
MinSizeOpts ==
    {<<{}, NumV(0)>>, <<{"min_size_mb"}, NumV(-1)>>, <<{"min_size_mb"}, NumV(50)>>}
ExtOpts ==
    {<<{}, StrV(<<>>)>>, <<{"extensions"}, StrV(Ext_IsoZip)>>,
     <<{"extensions"}, StrV(Ext_ZipTxt)>>}
BadMinSize == StrV(<<"a", "b", "c">>)

LargeReqs ==
    {DictReq({"path", "scan_type"} \cup m[1] \cup e[1], ".", m[2], e[2],
             "large_files", 0) : m \in MinSizeOpts, e \in ExtOpts}
    \cup {DictReq({"path", "min_size_mb"}, ".", StrV(<<"5", "0">>), StrV(<<>>),
                  "", 0),
          DictReq({"path", "min_size_mb"}, ".", BadMinSize, StrV(<<>>), "", 0),
          DictReq({"path", "min_size_mb"}, ".", ListV(<<"5">>), StrV(<<>>), "", 0),
          DictReq({"path", "extensions"}, ".", NumV(0), ListV(Ext_Zip), "", 0)}

OtherReqs ==
    {DictReq({"path", "scan_type"}, ".", NumV(0), StrV(<<>>), st, 0) :
        st \in {"temp_files", "old_files", "duplicates"}}
    \cup {DictReq({"path", "scan_type", "days"}, ".", NumV(0), StrV(<<>>),
                  "old_files", 30)}

ErrReqs ==
    {DictReq({"path", "scan_type"} \cup m[1], p, m[2], StrV(<<>>), st, 0) :
        p \in {"nope", "a.txt"}, st \in {"large_files", "bogus"},
        m \in {<<{}, NumV(0)>>, <<{"min_size_mb"}, BadMinSize>>}}
    \cup {DictReq({"path", "scan_type"} \cup e[1], ".", NumV(0), e[2], "bogus", 0) :
            e \in {<<{}, StrV(<<>>)>>, <<{"extensions"}, NumV(5)>>}}

CsvReqs ==
    {CsvReq(1, ".", <<>>, ""), CsvReq(2, ".", <<"Z", "I", "P">>, ""),
     CsvReq(3, ".", <<>>, "duplicates"), CsvReq(3, "nope", <<>>, "bogus")}

NoneReq == MakeReq("none", {}, 0, "", NumV(0), StrV(<<>>), "", 0)

Requests == LargeReqs \cup OtherReqs \cup ErrReqs \cup CsvReqs \cup {NoneReq}

----------------------------------------------------------------------------
(* use(): input parsing *)

Digits == {"0", "1", "2", "3", "4", "5", "6", "7", "8", "9"}

DigitVal(c) ==
    CASE c = "0" -> 0 [] c = "1" -> 1 [] c = "2" -> 2 [] c = "3" -> 3
      [] c = "4" -> 4 [] c = "5" -> 5 [] c = "6" -> 6 [] c = "7" -> 7
      [] c = "8" -> 8 [] c = "9" -> 9

RECURSIVE DecimalVal(_)
DecimalVal(s) ==
    IF s = <<>> THEN 0
    ELSE 10 * DecimalVal(SubSeq(s, 1, Len(s) - 1)) + DigitVal(s[Len(s)])

\* float(v): a number converts, a string converts when it is a decimal numeral,
\* any other string raises ValueError and any other value TypeError
ToFloat(v) ==
    CASE v.kind = "num" -> [ok |-> TRUE, val |-> v.num, exc |-> ""]
      [] v.kind = "str" ->
            IF v.str # <<>> /\ Range(v.str) \subseteq Digits
            THEN [ok |-> TRUE, val |-> DecimalVal(v.str), exc |-> ""]
            ELSE [ok |-> FALSE, val |-> 0, exc |-> "ValueError"]
      [] OTHER -> [ok |-> FALSE, val |-> 0, exc |-> "TypeError"]

\* the four locals the parsing block assigns; ok is FALSE when float() raised,
\* which happens outside the try block of use().  A string that json.loads
\* turns into an object is a request of shape "dict"; any other string takes
\* the comma-separated fallback, whose parts the request holds.
ParseInput(req) ==
    CASE req.shape = "dict" ->
            LET f == IF "min_size_mb" \in req.keys THEN ToFloat(req.min_size_mb)
                     ELSE [ok |-> TRUE, val |-> DefaultMinSizeMb, exc |-> ""]
            IN  [ok |-> f.ok, exc |-> f.exc,
                 path |-> IF "path" \in req.keys THEN req.path ELSE ".",
                 min_size_mb |-> f.val,
                 extensions |-> IF "extensions" \in req.keys THEN req.extensions
                                ELSE StrV(<<>>),
                 scan_type |-> IF "scan_type" \in req.keys THEN req.scan_type
                               ELSE "large_files"]
      [] req.shape = "csv" ->
            [ok |-> TRUE, exc |-> "",
             path |-> req.path,
             min_size_mb |-> DefaultMinSizeMb,
             extensions |-> IF req.nparts > 1 THEN StrV(Strip(req.extensions.str))
                            ELSE StrV(<<>>),
             scan_type |-> IF req.nparts > 2 THEN req.scan_type ELSE "large_files"]
      [] OTHER ->
            [ok |-> TRUE, exc |-> "", path |-> ".",
             min_size_mb |-> DefaultMinSizeMb, extensions |-> StrV(<<>>),
             scan_type |-> "large_files"]

\* bool(extensions)
Truthy(v) ==
    CASE v.kind = "num" -> v.num # 0
      [] OTHER -> v.str # <<>>

\* one token of the extensions string, normalised
NormToken(tok) ==
    LET e == Lower(Strip(tok))
    IN  IF e # <<>> /\ Head(e) # "." THEN <<".">> \o e ELSE e

\* the loop over extensions.split(","): empty tokens are dropped
RECURSIVE NormTokens(_)
NormTokens(toks) ==
    IF toks = <<>> THEN <<>>
    ELSE LET e == NormToken(Head(toks))
         IN  (IF e = <<>> THEN <<>> ELSE <<e>>) \o NormTokens(Tail(toks))

\* "Normalize extensions": ok is FALSE when extensions.split raises
\* AttributeError (a truthy value that is no string)
NormalizeExtensions(v) ==
    IF ~Truthy(v) THEN [ok |-> TRUE, list |-> <<>>]
    ELSE IF v.kind = "str" THEN [ok |-> TRUE, list |-> NormTokens(Split(v.str))]
    ELSE [ok |-> FALSE, list |-> <<>>]

ScanTypes == {"large_files", "temp_files", "old_files", "duplicates"}

----------------------------------------------------------------------------
(* The classifiers *)

Reason(text, n) == [text |-> text, n |-> n]

\* one element of a classifier's results
Finding(k, size, reason) ==
    [path |-> RelPath(k), size_mb |-> Round2(size), reason |-> reason]

\* _scan_large_files(): min_bytes
MinBytes(mb) == mb * MB

\* LargeMatch with the size test made strict
LargeMatch_Strict(size, suffix, min_bytes, extensions) ==
    /\ size > min_bytes
    /\ extensions = <<>> \/ Lower(suffix) \in Range(extensions)

\* _scan_large_files(): the test a file passes to be appended
LargeMatch(size, suffix, min_bytes, extensions) ==
    /\ size >= min_bytes
    /\ extensions = <<>> \/ Lower(suffix) \in Range(extensions)

\* InsertDesc that puts x in front of the elements with an equal key
InsertDesc_Unstable(rs, x) ==
    LET notLarger == {k \in 1..Len(rs) : rs[k].size_mb <= x.size_mb}
        at == IF notLarger = {} THEN Len(rs) + 1
              ELSE CHOOSE k \in notLarger : \A m \in notLarger : k <= m
    IN  SubSeq(rs, 1, at - 1) \o <<x>> \o SubSeq(rs, at, Len(rs))

\* where the stable descending sort puts x among rs, already sorted: behind
\* every element whose key is at least x's
InsertDesc(rs, x) ==
    LET smaller == {k \in 1..Len(rs) : rs[k].size_mb < x.size_mb}
        at == IF smaller = {} THEN Len(rs) + 1
              ELSE CHOOSE k \in smaller : \A m \in smaller : k <= m
    IN  SubSeq(rs, 1, at - 1) \o <<x>> \o SubSeq(rs, at, Len(rs))

\* results.sort(key=lambda x: x["size_mb"], reverse=True): list.sort is stable,
\* also with reverse=True
RECURSIVE SortDesc(_)
SortDesc(rs) ==
    IF rs = <<>> THEN <<>>
    ELSE InsertDesc(SortDesc(SubSeq(rs, 1, Len(rs) - 1)), rs[Len(rs)])

\* _scan_temp_files(): temp_extensions and temp_patterns
temp_extensions ==
    {<<".", "t", "m", "p">>, <<".", "t", "e", "m", "p">>,
     <<".", "c", "a", "c", "h", "e">>, <<".", "l", "o", "g">>,
     <<".", "b", "a", "k">>, <<"~">>}
temp_patterns ==
    {<<"t", "m", "p">>, <<"t", "e", "m", "p">>, <<"c", "a", "c", "h", "e">>,
     <<"_", "_", "p", "y", "c", "a", "c", "h", "e", "_", "_">>}

\* _scan_temp_files(): is_temp
TempMatch(name) ==
    \/ Lower(Suffix(name)) \in temp_extensions
    \/ \E pattern \in temp_patterns : Contains(Lower(name), pattern)

\* _scan_old_files(): cutoff_time, from the clock read on entry
CutoffTime(now, days) == now - days * DaySeconds

\* OldMatch with the cutoff computed again from the clock at the test
OldMatch_Reread(mtime, cutoff, now) == mtime < CutoffTime(now, DefaultDays)

\* _scan_old_files(): the test a file passes; now is the clock at the test
OldMatch(mtime, cutoff, now) == mtime < cutoff

\* _scan_old_files(): age_days, from the clock read at the file
AgeDays(now, mtime) == (now - mtime) \div DaySeconds

\* _scan_duplicates(): size_groups.setdefault(size, []).append(file_path)
GroupAdd(groups, size, k) ==
    IF \E g \in 1..Len(groups) : groups[g].size = size
    THEN [g \in 1..Len(groups) |->
            IF groups[g].size = size
            THEN [groups[g] EXCEPT !.files = Append(@, k)]
            ELSE groups[g]]
    ELSE Append(groups, [size |-> size, files |-> <<k>>])

\* GroupMarked without the test for the size 0
GroupMarked_ZeroToo(g) == IF Len(g.files) > 1 THEN Tail(g.files) ELSE <<>>

\* _scan_duplicates(): the files of one group that are reported
GroupMarked(g) ==
    IF Len(g.files) > 1 /\ g.size > 0 THEN Tail(g.files) ELSE <<>>

\* _scan_duplicates(): the findings of one group
GroupFindings(g) ==
    LET marked == GroupMarked(g)
    IN  [j \in 1..Len(marked) |->
            Finding(marked[j], g.size,
                    Reason("Potential duplicate (K files with same size)",
                           Len(g.files)))]

\* _scan_duplicates(): the second loop, over size_groups in insertion order
RECURSIVE DupResults(_)
DupResults(groups) ==
    IF groups = <<>> THEN <<>>
    ELSE GroupFindings(Head(groups)) \o DupResults(Tail(groups))

RECURSIVE DupTotal(_)
DupTotal(groups) ==
    IF groups = <<>> THEN 0
    ELSE Len(GroupMarked(Head(groups))) * Head(groups).size + DupTotal(Tail(groups))

----------------------------------------------------------------------------
(* use(): the report *)

\* FirstFiles without the limit
FirstFiles_NoLimit(rs) == rs

\* results[:20]
FirstFiles(rs) == SubSeq(rs, 1, IF Len(rs) < Limit THEN Len(rs) ELSE Limit)

Note(rs) == IF Len(rs) > Limit THEN "Limited to first 20 files" ELSE "All files shown"

\* round(total_size / (1024 * 1024), 2)
TotalMb(total) == Round2(total)

Report(st, rs, total) ==
    [scan_type |-> st, path |-> "/cwd", files_found |-> Len(rs),
     total_size_mb |-> TotalMb(total), files |-> FirstFiles(rs), note |-> Note(rs)]

Returned(json) == [status |-> "returned", value |-> json]
Raised(exc) == [status |-> "raised", value |-> [exc |-> exc]]
NoOutput == [status |-> "none", value |-> [exc |-> ""]]

\* the except clause of use()
ScanFailed(exc) == Returned([error |-> <<"Scan failed", exc>>])

DefaultHint == "Try an absolute path, forward slashes, or an alias like 'downloads'."

\* use() up to the entry into a classifier: the output when the call ends
\* there, NoOutput when a classifier is entered.  The hint for Windows paths
\* (os.name == "nt") is not modelled.
Before(req) ==
    LET p == ParseInput(req)
        abs == Resolve(p.path)
        ext == NormalizeExtensions(p.extensions)
    IN  IF ~p.ok THEN Raised(p.exc)
        ELSE IF ~PathExists(abs)
        THEN Returned([error |-> <<"Path does not exist after expansion", p.path>>,
                       resolved_path |-> abs, hint |-> DefaultHint])
        ELSE IF ~PathIsDir(abs)
        THEN Returned([error |-> <<"Path is not a directory", p.path>>,
                       resolved_path |-> abs])
        ELSE IF ~ext.ok THEN ScanFailed("AttributeError")
        ELSE IF p.scan_type \notin ScanTypes
        THEN Returned([error |-> <<"Unknown scan_type", p.scan_type>>])
        ELSE NoOutput

----------------------------------------------------------------------------
(* The state machine *)

Init ==
    /\ tree \in Trees
    /\ clock = T0
    /\ ticks = 0
    /\ pc = "idle"
    /\ request = NoneReq
    /\ scan_type = ""
    /\ min_size_mb = 0
    /\ ext_list = <<>>
    /\ cutoff_time = 0
    /\ t0 = 0
    /\ idx = 0
    /\ results = <<>>
    /\ total_size = 0
    /\ size_groups = <<>>
    /\ output = NoOutput

\* use() is called: lines 123-212, and the first lines of the classifier
Call(req) ==
    /\ pc = "idle"
    /\ request' = req
    /\ LET p == ParseInput(req)
           out == Before(req)
       IN  IF out # NoOutput
           THEN /\ pc' = "done"
                /\ output' = out
                /\ UNCHANGED <<scan_type, min_size_mb, ext_list, cutoff_time, t0, idx>>
           ELSE /\ pc' = "walk"
                /\ output' = NoOutput
                /\ scan_type' = p.scan_type
                /\ min_size_mb' = p.min_size_mb
                /\ ext_list' = NormalizeExtensions(p.extensions).list
                /\ cutoff_time' = IF p.scan_type = "old_files"
                                  THEN CutoffTime(clock, DefaultDays) ELSE 0
                /\ t0' = clock
                /\ idx' = 1
    /\ UNCHANGED <<tree, clock, ticks, results, total_size, size_groups>>

\* what one iteration of the classifier's loop does with the entry e at
\* position k: <<results, total_size, size_groups>> after it
VisitLarge(e, k) ==
    IF StatOk(e) /\ LargeMatch(e.size, Suffix(e.name), MinBytes(min_size_mb), ext_list)
    THEN <<Append(results, Finding(k, e.size, Reason("Large file", 0))),
           total_size + e.size, size_groups>>
    ELSE <<results, total_size, size_groups>>

VisitTemp(e, k) ==
    IF TempMatch(e.name) /\ StatOk(e)
    THEN <<Append(results, Finding(k, e.size, Reason("Temporary file", 0))),
           total_size + e.size, size_groups>>
    ELSE <<results, total_size, size_groups>>

VisitOld(e, k) ==
    IF StatOk(e) /\ OldMatch(e.mtime, cutoff_time, clock)
    THEN <<Append(results,
                  Finding(k, e.size,
                          Reason("Not modified in N days", AgeDays(clock, e.mtime)))),
           total_size + e.size, size_groups>>
    ELSE <<results, total_size, size_groups>>

VisitDup(e, k) ==
    IF StatOk(e)
    THEN <<results, total_size, GroupAdd(size_groups, e.size, k)>>
    ELSE <<results, total_size, size_groups>>

VisitEntry(e, k) ==
    CASE scan_type = "large_files" -> VisitLarge(e, k)
      [] scan_type = "temp_files" -> VisitTemp(e, k)
      [] scan_type = "old_files" -> VisitOld(e, k)
      [] scan_type = "duplicates" -> VisitDup(e, k)

\* one iteration of "for file_path in path.rglob('*')": is_file() is called
\* outside the try block, so what it raises reaches the except clause of use()
Visit ==
    /\ pc = "walk"
    /\ idx <= Len(tree)
    /\ LET e == tree[idx]
       IN  CASE IsFile(e) = "raise" ->
                    /\ pc' = "done"
                    /\ output' = ScanFailed("PermissionError")
                    /\ UNCHANGED <<idx, results, total_size, size_groups>>
             [] IsFile(e) = "no" ->
                    /\ idx' = idx + 1
                    /\ UNCHANGED <<pc, output, results, total_size, size_groups>>
             [] IsFile(e) = "yes" ->
                    /\ idx' = idx + 1
                    /\ results' = VisitEntry(e, idx)[1]
                    /\ total_size' = VisitEntry(e, idx)[2]
                    /\ size_groups' = VisitEntry(e, idx)[3]
                    /\ UNCHANGED <<pc, output>>
    /\ UNCHANGED <<tree, clock, ticks, request, scan_type, min_size_mb, ext_list,
                   cutoff_time, t0>>

\* the classifier's lines after the loop
FinalResults ==
    CASE scan_type = "large_files" -> SortDesc(results)
      [] scan_type = "duplicates" -> DupResults(size_groups)
      [] OTHER -> results

\* FinalTotal summed over the reported files only
RECURSIVE SumSizes(_)
SumSizes(rs) ==
    IF rs = <<>> THEN 0 ELSE tree[Head(rs).path[1]].size + SumSizes(Tail(rs))

FinalTotal_ReportedOnly == SumSizes(FirstFiles(FinalResults))

FinalTotal ==
    IF scan_type = "duplicates" THEN DupTotal(size_groups) ELSE total_size

\* the walk is exhausted: the classifier returns and use() builds the report
Finish ==
    /\ pc = "walk"
    /\ idx > Len(tree)
    /\ results' = FinalResults
    /\ total_size' = FinalTotal
    /\ output' = Returned(Report(scan_type, FinalResults, FinalTotal))
    /\ pc' = "done"
    /\ UNCHANGED <<tree, clock, ticks, request, scan_type, min_size_mb, ext_list,
                   cutoff_time, t0, idx, size_groups>>

\* time passes while the classifier runs
Tick ==
    /\ pc = "walk"
    /\ ticks < MaxTicks
    /\ clock' = clock + 1
    /\ ticks' = ticks + 1
    /\ UNCHANGED <<tree, pc, request, scan_type, min_size_mb, ext_list, cutoff_time,
                   t0, idx, results, total_size, size_groups, output>>

Next ==
    \/ \E req \in Requests : Call(req)
    \/ Visit
    \/ Finish
    \/ Tick

Spec == Init /\ [][Next]_vars

----------------------------------------------------------------------------
(* Vocabulary of the properties *)

\* use() has returned a report
IsReport == output.status = "returned" /\ "files_found" \in DOMAIN output.value

\* use() has returned an error result
IsError == output.status = "returned" /\ "error" \in DOMAIN output.value

ReportFields == {"files_found", "total_size_mb", "files"}

\* the walk positions of the readable regular files
Readable == {k \in 1..Len(tree) : tree[k].kind = "file"}

\* the walk positions a sequence of findings reports
Positions(rs) == {rs[j].path[1] : j \in 1..Len(rs)}

\* every finding is a different file, named by its relative path
Faithful(rs) ==
    /\ Cardinality(Positions(rs)) = Len(rs)
    /\ \A j \in 1..Len(rs) :
          /\ rs[j].path[1] \in 1..Len(tree)
          /\ rs[j].path = <<rs[j].path[1], tree[rs[j].path[1]].name>>

\* the findings are in the order of the walk
InWalkOrder(rs) ==
    \A i, j \in 1..Len(rs) : i < j => rs[i].path[1] < rs[j].path[1]

\* the raw byte size of the file a finding reports
RawSize(f) == tree[f.path[1]].size

RECURSIVE SumRaw(_)
SumRaw(rs) == IF rs = <<>> THEN 0 ELSE RawSize(Head(rs)) + SumRaw(Tail(rs))

RECURSIVE SumRounded(_)
SumRounded(rs) == IF rs = <<>> THEN 0 ELSE Head(rs).size_mb + SumRounded(Tail(rs))

Smaller(a, b) == IF a < b THEN a ELSE b

----------------------------------------------------------------------------
(* C1: the report counts every finding and lists the first 20 *)

\* C1: in every report, files_found is the number n of findings the classifier
\* produced, files is the first min(n, 20) of them in the classifier's order,
\* and the note marks truncation exactly when n > 20.
C1_ReportCountsAll ==
    IsReport =>
        /\ output.value.files_found = Len(results)
        /\ output.value.files = SubSeq(results, 1, Smaller(Len(results), 20))
        /\ (output.value.note = "Limited to first 20 files") = (Len(results) > 20)
        /\ output.value.note \in {"Limited to first 20 files", "All files shown"}

\* a report of more than 20 findings, cut to 20
C1_Witness ==
    /\ IsReport
    /\ Len(results) > 20
    /\ Len(output.value.files) = 20
    /\ output.value.files_found = Len(results)

----------------------------------------------------------------------------
(* C2: the total is the rounded sum of the raw sizes of all findings *)

\* C2: in every report, total_size_mb is the sum of the raw byte sizes of all
\* findings, the ones beyond the first 20 included, divided by 1024*1024 and
\* rounded once to 2 decimals.
C2_TotalOfRawBytes ==
    IsReport =>
        /\ Faithful(results)
        /\ output.value.total_size_mb = Round2(SumRaw(results))

\* a report of more than 20 findings whose total is neither the sum of the
\* rounded sizes nor the total of the reported files
C2_Witness ==
    /\ IsReport
    /\ Len(results) > 20
    /\ output.value.total_size_mb # SumRounded(results)
    /\ output.value.total_size_mb # Round2(SumRaw(output.value.files))

----------------------------------------------------------------------------
(* C3: what a large_files scan reports *)

\* the claim's test, on the entry at walk position k
C3_Qualifies(k) ==
    /\ tree[k].kind = "file"
    /\ tree[k].size >= min_size_mb * 1024 * 1024
    /\ \/ Range(ext_list) = {}
       \/ Lower(Suffix(tree[k].name)) \in Range(ext_list)

\* C3: in a large_files scan with minimum size M and normalised extension
\* filter E, the findings are exactly the readable regular files of at least
\* M*1024*1024 bytes whose lower-cased extension is in E when E is not empty:
\* at every point of the scan this holds of the entries walked so far, and a
\* report is made only after the whole tree was walked.
C3_LargeFindings ==
    (pc \in {"walk", "done"} /\ scan_type = "large_files") =>
        /\ Faithful(results)
        /\ Positions(results) = {k \in 1..(idx - 1) : C3_Qualifies(k)}
        /\ \A j \in 1..Len(results) : results[j].reason.text = "Large file"
        /\ IsReport => idx = Len(tree) + 1

\* M = 50, E = {.iso, .zip}: of a 60MB .zip, a 60MB .txt and a 10MB .zip, the
\* report holds the first alone
C3_Witness ==
    /\ IsReport
    /\ scan_type = "large_files"
    /\ min_size_mb = 50
    /\ Range(ext_list) = {<<".", "i", "s", "o">>, <<".", "z", "i", "p">>}
    /\ tree = <<F_zip60, F_txt60, F_zip10>>
    /\ Positions(results) = {1}

----------------------------------------------------------------------------
(* C4: the order of a large_files scan *)

\* C4: the findings of a large_files scan are in non-increasing order of
\* size_mb, and findings of equal size_mb are in the order of the walk.
C4_SortedStable ==
    (IsReport /\ scan_type = "large_files") =>
        \A i, j \in 1..Len(results) :
            i < j =>
                /\ results[i].size_mb >= results[j].size_mb
                /\ results[i].size_mb = results[j].size_mb =>
                      results[i].path[1] < results[j].path[1]

\* a report the sort has reordered, with two findings of equal size_mb
C4_Witness ==
    /\ IsReport
    /\ scan_type = "large_files"
    /\ \E i, j \in 1..Len(results) :
          i < j /\ results[i].path[1] > results[j].path[1]
    /\ \E i, j \in 1..Len(results) :
          /\ i < j
          /\ results[i].size_mb = results[j].size_mb
          /\ RawSize(results[i]) # RawSize(results[j])

----------------------------------------------------------------------------
(* C5: what a duplicates scan reports *)

\* the readable regular files of byte size s, and their number
C5_Members(s) == {k \in Readable : tree[k].size = s}
C5_K(s) == Cardinality(C5_Members(s))

\* the first member of a size the walk encounters
C5_First(s) == CHOOSE k \in C5_Members(s) : \A m \in C5_Members(s) : k <= m

\* the files the claim has reported: every member but the first of every size
\* s > 0 that K >= 2 readable files share
C5_Expected ==
    {k \in Readable :
        /\ tree[k].size > 0
        /\ C5_K(tree[k].size) >= 2
        /\ k # C5_First(tree[k].size)}

----------------------------------------------------------------------------
(* C6: an entry whose metadata cannot be read *)

\* the tree holds an entry whose metadata cannot be read
C6_Unreadable == \E k \in 1..Len(tree) : tree[k].kind \in {"stat_err", "isfile_err"}

\* C6: when the walk meets an entry whose metadata cannot be read, whether in
\* stat() or in the regular-file test, the scan still returns a report, which
\* holds findings of readable files only; it never returns an error result.
C6_SkipNeverAborts ==
    (pc = "done" /\ idx >= 1 /\ C6_Unreadable) =>
        /\ IsReport
        /\ Positions(results) \subseteq Readable

----------------------------------------------------------------------------
(* C7: malformed mode parameters *)

\* the field of the request that is malformed, "" when none is
C7_Offending(req) ==
    IF /\ req.shape = "dict"
       /\ "min_size_mb" \in req.keys
       /\ \/ req.min_size_mb.kind = "num" /\ req.min_size_mb.num < 0
          \/ ~ToFloat(req.min_size_mb).ok
    THEN "min_size_mb"
    ELSE IF /\ req.shape = "dict"
            /\ "extensions" \in req.keys
            /\ req.extensions.kind = "num"
    THEN "extensions"
    ELSE IF req.shape = "dict" /\ "days" \in req.keys /\ req.days <= 0
    THEN "days"
    ELSE ""

\* C7: a call with a malformed min_size_mb, extensions or age returns an error
\* result that names the offending field; it raises nothing and returns no
\* report.
C7_MalformedRejected ==
    (pc = "done" /\ C7_Offending(request) # "") =>
        /\ IsError
        /\ output.value.error[2] = C7_Offending(request)

----------------------------------------------------------------------------
(* C8: an invalid root, an unknown scan mode *)

\* the raw path and the scan mode of the request, as use() reads them
C8_Path(req) ==
    CASE req.shape = "dict" -> IF "path" \in req.keys THEN req.path ELSE "."
      [] req.shape = "csv" -> req.path
      [] OTHER -> "."

C8_Mode(req) ==
    CASE req.shape = "dict" ->
            IF "scan_type" \in req.keys THEN req.scan_type ELSE "large_files"
      [] req.shape = "csv" -> IF req.nparts > 2 THEN req.scan_type ELSE "large_files"
      [] OTHER -> "large_files"

C8_BadRoot(req) == ~PathExists(Resolve(C8_Path(req))) \/ ~PathIsDir(Resolve(C8_Path(req)))

C8_BadMode(req) ==
    C8_Mode(req) \notin {"large_files", "temp_files", "old_files", "duplicates"}

\* C8: a call whose resolved root is missing or no directory, or whose scan
\* mode is unknown, returns an error result without report fields, with the
\* resolved path for an invalid root and the mode verbatim for an unknown mode
\* under a valid root, and has visited no file.
C8_FailFast ==
    (pc = "done" /\ (C8_BadRoot(request) \/ C8_BadMode(request))) =>
        /\ IsError
        /\ DOMAIN output.value \cap ReportFields = {}
        /\ idx = 0
        /\ C8_BadRoot(request) =>
              /\ "resolved_path" \in DOMAIN output.value
              /\ output.value.resolved_path = Resolve(C8_Path(request))
        /\ (~C8_BadRoot(request)) =>
              output.value.error = <<"Unknown scan_type", C8_Mode(request)>>

----------------------------------------------------------------------------
(* C9: what a temp_files scan reports *)

\* the claim's test on a file name
C9_Qualifies(name) ==
    \/ Lower(Suffix(name)) \in
          {<<".", "t", "m", "p">>, <<".", "t", "e", "m", "p">>,
           <<".", "c", "a", "c", "h", "e">>, <<".", "l", "o", "g">>,
           <<".", "b", "a", "k">>}
    \/ name # <<>> /\ name[Len(name)] = "~"
    \/ \E sub \in {<<"t", "m", "p">>, <<"t", "e", "m", "p">>,
                   <<"c", "a", "c", "h", "e">>,
                   <<"_", "_", "p", "y", "c", "a", "c", "h", "e", "_", "_">>} :
          Contains(Lower(name), sub)

\* C9: a temp_files scan reports, in walk order, exactly the readable regular
\* files whose extension is .tmp, .temp, .cache, .log or .bak, or whose name
\* ends with '~', or whose lower-cased name contains tmp, temp, cache or
\* __pycache__.
C9_TempFindings ==
    (IsReport /\ scan_type = "temp_files") =>
        /\ Faithful(results)
        /\ InWalkOrder(results)
        /\ Positions(results) = {k \in Readable : C9_Qualifies(tree[k].name)}

----------------------------------------------------------------------------
(* C10: what an old_files scan reports *)

\* the age cutoff the request asks for, 180 when it gives none
C10_RequestedDays(req) ==
    IF req.shape = "dict" /\ "days" \in req.keys THEN req.days ELSE 180

====
